---- MODULE Spec2Model ----
(***************************************************************************)
(* Model of sort.hpp: compile-time ranked-order sorting.                   *)
(*                                                                         *)
(*   sort<N>(list) -> sort_impl<N>(list, make_index_sequence<N>{})         *)
(*     rank[]   = { sort_rank_l<I>(..) + sort_rank_u<I>(..) ... }          *)
(*     response = {}                                                       *)
(*     ((response[rank[I]] = list[I]), ...)                                *)
(*     return response                                                     *)
(*                                                                         *)
(* C++ containers are indexed from 0 and TLA+ sequences from 1: a C++      *)
(* container is a TLA+ sequence and At / Put do the index shift, so that   *)
(* every index the model names (I, J, rank[I]) is the C++ index.           *)
(***************************************************************************)
EXTENDS Integers, Sequences, FiniteSets, Bags

VARIABLES
    N,         \* template parameter N of sort<N>
    list,      \* the argument `T list` (the caller's elements, at least N of them)
    pc,        \* position in sort / sort_impl
    I,         \* next element of the pack I... to be expanded
    rank,      \* size_t rank[]: the initialisers evaluated so far
    response,  \* array<Atom<T>, N> response
    cmps,      \* bag of the element comparisons evaluated so far
    reads,     \* set of the indices i of the list[i] evaluated so far
    writes     \* the indices of response assigned so far, in order

vars == <<N, list, pc, I, rank, response, cmps, reads, writes>>

---------------------------------------------------------------------------
(* Bounds of the model *)

\* largest template parameter N explored exhaustively for int elements
MaxN == 4

\* largest N explored for element types with their own comparison operators
MaxNT == 3

\* int elements are drawn from -MaxVal .. MaxVal
MaxVal == 1

Vals == (0 - MaxVal)..MaxVal

\* the array of the usage example in the header comment
known == <<5, 7, 3, 1, -5, 9>>

---------------------------------------------------------------------------
(* Helpers for C++ indexing and arithmetic *)

\* container[i]
At(container, i) == container[i + 1]

\* container[i] = v, for i inside the container
Put(container, i, v) == [container EXCEPT ![i + 1] = v]

\* a bool operand of + is promoted: false -> 0, true -> 1
Promote(b) == IF b THEN 1 ELSE 0

\* the indices J... of make_index_sequence<n>: 0, 1, ..., n-1
make_index_sequence(n) == [k \in 1..n |-> k - 1]

\* the binary right fold (E + ... + 0) over the expanded pack E
RECURSIVE fold_plus(_)
fold_plus(pack) ==
    IF pack = <<>> THEN 0 ELSE Head(pack) + fold_plus(Tail(pack))

\* Atom<T>{} : a value-initialised element (int: 0)
ValueInit == 0

---------------------------------------------------------------------------
(* sort_rank_l / sort_rank_u *)

\* the pairs <<a, b>> of the expansion (list[I] >= list[J])... : list[a] >= list[b]
operands_l(i, Js) == [k \in DOMAIN Js |-> <<i, Js[k]>>]

\* the same pattern with the upper pass's 1+ offset dropped (compares list[I]
\* with itself and never reaches list[N-1])
operands_u_no_offset(i, Js) == [k \in DOMAIN Js |-> <<i, i + Js[k]>>]

\* the pairs <<a, b>> of the expansion (list[I] > list[1+I+J])... : list[a] > list[b]
operands_u(i, Js) == [k \in DOMAIN Js |-> <<i, 1 + i + Js[k]>>]

\* lower pass with the strict comparison
sort_rank_l_gt(i, lst, Js) ==
    fold_plus([k \in DOMAIN Js |->
        Promote(At(lst, operands_l(i, Js)[k][1]) > At(lst, operands_l(i, Js)[k][2]))])

\* sort_rank_l<I>(list, index_sequence<J...>) for int elements
sort_rank_l(i, lst, Js) ==
    fold_plus([k \in DOMAIN Js |->
        Promote(At(lst, operands_l(i, Js)[k][1]) >= At(lst, operands_l(i, Js)[k][2]))])

\* upper pass with the non-strict comparison
sort_rank_u_ge(i, lst, Js) ==
    fold_plus([k \in DOMAIN Js |->
        Promote(At(lst, operands_u(i, Js)[k][1]) >= At(lst, operands_u(i, Js)[k][2]))])

\* sort_rank_u<I>(list, index_sequence<J...>) for int elements
sort_rank_u(i, lst, Js) ==
    fold_plus([k \in DOMAIN Js |->
        Promote(At(lst, operands_u(i, Js)[k][1]) > At(lst, operands_u(i, Js)[k][2]))])

\* what a comparison of an element type with its own bool operator>= and
\* operator> contributes to the fold: the bool result promoted, 0 or 1. The
\* operators need not be consistent with each other or with any order.
\* (Operators returning other types are outside the model: the fold would add
\* their results as they are.)
Results == {0, 1}

\* sort_rank_l / sort_rank_u for such an element type: result[k] is what the
\* k-th comparison of the expansion returned, promoted; the fold adds the
\* results as they are
sort_rank_T(result) == fold_plus(result)

\* one initialiser of rank[]:
\*   sort_rank_l<I>(list, make_index_sequence<I>{})
\*     + sort_rank_u<I>(list, make_index_sequence<N-I-1>{})
rank_init(n, i, lst) ==
    sort_rank_l(i, lst, make_index_sequence(i))
        + sort_rank_u(i, lst, make_index_sequence(n - i - 1))

\* the comparisons one initialiser of rank[] evaluates, as a bag of
\* <<operator, a, b>> standing for list[a] operator list[b]
Range(f) == {f[k] : k \in DOMAIN f}

compared(n, i) ==
    SetToBag({<<">=", p[1], p[2]>> : p \in Range(operands_l(i, make_index_sequence(i)))})
    (+) SetToBag({<<">", p[1], p[2]>> :
                    p \in Range(operands_u(i, make_index_sequence(n - i - 1)))})

\* the indices of list one initialiser of rank[] reads
read_by(n, i) ==
    UNION {{p[1], p[2]} : p \in Range(operands_l(i, make_index_sequence(i)))
                             \cup Range(operands_u(i, make_index_sequence(n - i - 1)))}

---------------------------------------------------------------------------
(* sort_impl and sort as functions of their arguments *)

\* size_t rank[] = { (sort_rank_l<I>(..) + sort_rank_u<I>(..))... }
rank_array(n, lst, Is) == [k \in DOMAIN Is |-> rank_init(n, Is[k], lst)]

\* ((response[rank[I]] = list[I]), ...) from the pack element at position k on
RECURSIVE scatter(_, _, _, _, _)
scatter(resp, rk, lst, Is, k) ==
    IF k > Len(Is) THEN resp
    ELSE scatter(Put(resp, At(rk, Is[k]), At(lst, Is[k])), rk, lst, Is, k + 1)

\* sort_impl<N>(list, index_sequence<I...>)
sort_impl(n, lst, Is) ==
    scatter([k \in 1..n |-> ValueInit], rank_array(n, lst, Is), lst, Is, 1)

\* sort<N>(list)
sort(n, lst) == sort_impl(n, lst, make_index_sequence(n))

---------------------------------------------------------------------------
(* One invocation of sort<N>(list), step by step *)

\* sequences over S of length n
SeqsOf(S, n) == [1..n -> S]

\* the inputs explored: every N up to MaxN with every int list of N or N+1
\* elements, and the header's example
Inputs ==
    UNION {{<<n, l>> : l \in SeqsOf(Vals, n) \cup SeqsOf(Vals, n + 1)} : n \in 0..MaxN}
    \cup {<<Len(known), known>>}

Init ==
    /\ \E in \in Inputs : N = in[1] /\ list = in[2]
    /\ pc = "sort"
    /\ I = 0
    /\ rank = <<>>
    /\ response = <<>>
    /\ cmps = EmptyBag
    /\ reads = {}
    /\ writes = <<>>

\* sort<N>(list) enters sort_impl<N>(list, make_index_sequence<N>{})
Call ==
    /\ pc = "sort"
    /\ pc' = "rank"
    /\ I' = 0
    /\ UNCHANGED <<N, list, rank, response, cmps, reads, writes>>

\* the initialiser of rank[I] is evaluated (int elements)
ComputeRank ==
    /\ pc = "rank"
    /\ I < N
    /\ rank' = Append(rank, rank_init(N, I, list))
    /\ cmps' = cmps (+) compared(N, I)
    /\ reads' = reads \cup read_by(N, I)
    /\ I' = I + 1
    /\ UNCHANGED <<N, list, pc, response, writes>>

\* the same with the upper pass over make_index_sequence<N-I> (one too many)
ComputeRankT_LongUpper ==
    /\ pc = "rank"
    /\ I < N
    /\ \E ge \in [1..I -> Results], gt \in [1..(N - I) -> Results] :
           rank' = Append(rank, sort_rank_T(ge) + sort_rank_T(gt))
    /\ cmps' = cmps (+) compared(N, I)
    /\ reads' = reads \cup read_by(N, I)
    /\ I' = I + 1
    /\ UNCHANGED <<N, list, pc, response, writes>>

\* the initialiser of rank[I] is evaluated for an element type whose bool
\* operator>= and operator> return true or false in any way at all
ComputeRankT ==
    /\ pc = "rank"
    /\ I < N
    /\ \E ge \in [1..I -> Results], gt \in [1..(N - I - 1) -> Results] :
           rank' = Append(rank, sort_rank_T(ge) + sort_rank_T(gt))
    /\ cmps' = cmps (+) compared(N, I)
    /\ reads' = reads \cup read_by(N, I)
    /\ I' = I + 1
    /\ UNCHANGED <<N, list, pc, response, writes>>

\* the output sized by the argument instead of by N
DeclareByList ==
    /\ pc = "rank"
    /\ I = N
    /\ response' = [k \in 1..Len(list) |-> ValueInit]
    /\ pc' = "scatter"
    /\ I' = 0
    /\ UNCHANGED <<N, list, rank, cmps, reads, writes>>

\* array<Atom<T>, N> response = {};
Declare ==
    /\ pc = "rank"
    /\ I = N
    /\ response' = [k \in 1..N |-> ValueInit]
    /\ pc' = "scatter"
    /\ I' = 0
    /\ UNCHANGED <<N, list, rank, cmps, reads, writes>>

\* r indexes an element of an n-element array
InBounds(r, n) == r \in 0..(n - 1)

\* the scatter done in place, on the argument
ScatterInPlace ==
    /\ pc = "scatter"
    /\ I < N
    /\ InBounds(At(rank, I), Len(response))
    /\ list' = Put(list, At(rank, I), At(list, I))
    /\ response' = Put(response, At(rank, I), At(list, I))
    /\ writes' = Append(writes, At(rank, I))
    /\ reads' = reads \cup {I}
    /\ I' = I + 1
    /\ UNCHANGED <<N, pc, rank, cmps>>

\* response[rank[I]] = list[I], for rank[I] inside response. A store outside
\* response would be undefined behaviour; the model has no step for it.
Scatter ==
    /\ pc = "scatter"
    /\ I < N
    /\ InBounds(At(rank, I), Len(response))
    /\ response' = Put(response, At(rank, I), At(list, I))
    /\ writes' = Append(writes, At(rank, I))
    /\ reads' = reads \cup {I}
    /\ I' = I + 1
    /\ UNCHANGED <<N, list, pc, rank, cmps>>

\* return response;
Return ==
    /\ pc = "scatter"
    /\ I = N
    /\ pc' = "done"
    /\ UNCHANGED <<N, list, I, rank, response, cmps, reads, writes>>

Next == Call \/ ComputeRank \/ Declare \/ Scatter \/ Return

Spec == Init /\ [][Next]_vars

\* the inputs explored for an element type with its own comparison operators:
\* every N up to MaxNT with every list of N elements
InputsT == UNION {{<<n, l>> : l \in SeqsOf(Vals, n)} : n \in 0..MaxNT}

InitT ==
    /\ \E in \in InputsT : N = in[1] /\ list = in[2]
    /\ pc = "sort"
    /\ I = 0
    /\ rank = <<>>
    /\ response = <<>>
    /\ cmps = EmptyBag
    /\ reads = {}
    /\ writes = <<>>

\* the same invocation for an element type with arbitrary bool comparison
\* operators
NextT == Call \/ ComputeRankT \/ Declare \/ Scatter \/ Return

SpecT == InitT /\ [][NextT]_vars

---------------------------------------------------------------------------
(* Vocabulary of the properties *)

\* the first N elements of the argument: what sort<N> is asked to sort
FirstN == SubSeq(list, 1, N)

\* the multiset of the values of a sequence
BagOf(s) == [v \in Range(s) |-> Cardinality({k \in DOMAIN s : s[k] = v})]

\* s is non-decreasing
NonDecreasing(s) == \A p \in 1..(Len(s) - 1) : s[p] <= s[p + 1]

\* rk assigns every destination 0..n-1 to exactly one source index
IsPermutation(rk, n) == Len(rk) = n /\ Range(rk) = 0..(n - 1)

\* two source indices share a destination
Collides(rk) == \E a, b \in DOMAIN rk : a # b /\ rk[a] = rk[b]

\* some value occurs twice among the elements sorted
HasDuplicates(s) == \E a, b \in DOMAIN s : a # b /\ s[a] = s[b]

\* every rank has been computed
RanksDone == pc \in {"scatter", "done"}

---------------------------------------------------------------------------
(* C1: sortedness *)

\* C1: the sequence sort<N> returns is non-decreasing: output[p] <= output[p+1]
\* for all adjacent positions, and the header's example {5, 7, 3, 1, -5, 9}
\* with N = 6 gives {-5, 1, 3, 5, 7, 9}.
C1_Sorted ==
    pc = "done" =>
        /\ NonDecreasing(response)
        /\ (list = known /\ N = 6) => response = <<-5, 1, 3, 5, 7, 9>>

C1_Witness ==
    /\ pc = "done"
    /\ list = known
    /\ N = 6
    /\ ~NonDecreasing(FirstN)
    /\ response = <<-5, 1, 3, 5, 7, 9>>

---------------------------------------------------------------------------
(* C2: the output is a rearrangement of the first N elements *)

\* C2: the multiset of the values of the output equals the multiset of the
\* first N elements of the input, and no element at a position >= N is ever
\* read (in any state of the invocation) or appears in the output.
C2_Rearrangement ==
    /\ reads \subseteq 0..(N - 1)
    /\ pc = "done" => BagOf(response) = BagOf(FirstN)

C2_Witness ==
    /\ pc = "done"
    /\ N >= 2
    /\ Len(list) > N
    /\ list[N + 1] \notin Range(FirstN)
    /\ HasDuplicates(FirstN)
    /\ response # FirstN

---------------------------------------------------------------------------
(* C3: length preservation, N = 0 and N = 1 *)

\* C3: the output has exactly N elements from its declaration on; for N = 0
\* it is empty, no rank is computed, nothing is compared and no slot is
\* written; for N = 1 rank[0] = 0 and the output is the input's first element.
C3_Length ==
    /\ RanksDone => Len(response) = N
    /\ (pc = "done" /\ N = 0) =>
           /\ response = <<>>
           /\ rank = <<>>
           /\ writes = <<>>
           /\ cmps = EmptyBag
    /\ (pc = "done" /\ N = 1) =>
           /\ rank = <<0>>
           /\ response = <<At(list, 0)>>

C3_Witness ==
    /\ pc = "done"
    /\ N = 1
    /\ Len(list) = 2
    /\ At(list, 0) # ValueInit
    /\ response = <<At(list, 0)>>

---------------------------------------------------------------------------
(* C4: idempotence *)

\* C4: on an already sorted input every rank[i] = i and the output is the
\* input; hence sorting the output of sort<N> again returns it unchanged.
C4_Idempotent ==
    pc = "done" =>
        /\ NonDecreasing(FirstN) =>
               /\ rank = make_index_sequence(N)
               /\ response = FirstN
        /\ sort(N, response) = response

C4_Witness ==
    /\ pc = "done"
    /\ N >= 3
    /\ NonDecreasing(FirstN)
    /\ HasDuplicates(FirstN)
    /\ At(list, 0) # At(list, N - 1)
    /\ response = FirstN

---------------------------------------------------------------------------
(* C5: the input is not mutated *)

\* C5: no step of sort<N> changes the caller's input or N: the rank
\* computation and every scatter write leave all elements of list as they
\* were; only rank and response (and the position in the code) change.
C5_InputUnchanged == [][list' = list /\ N' = N]_vars

C5_Witness ==
    /\ pc = "scatter"
    /\ I >= 2
    /\ Len(rank) = N
    /\ At(response, At(rank, 0)) = At(list, 0)
    /\ ~NonDecreasing(FirstN)

---------------------------------------------------------------------------
(* C6: rank is a permutation *)

\* C6: the ranks computed so far are pairwise distinct and, once all are
\* computed, rank is a permutation of 0..N-1, also with repeated values; so
\* the scatter never writes a slot twice and has written every slot of the
\* output exactly once when sort<N> returns.
C6_RankPermutation ==
    /\ ~Collides(rank)
    /\ RanksDone => IsPermutation(rank, N)
    /\ ~Collides(writes)
    /\ pc = "done" => IsPermutation(writes, N)

C6_Witness ==
    /\ pc = "done"
    /\ N >= 3
    /\ \A a \in 0..(N - 1) : At(list, a) = At(list, 0)
    /\ At(list, 0) # ValueInit
    /\ IsPermutation(writes, N)

---------------------------------------------------------------------------
(* C7: stable tie-breaking *)

\* the position the element at index i takes in a stable sort of the first n
\* elements of s: after every smaller element and after the equal elements
\* before it
StablePosition(s, n, i) ==
    Cardinality({j \in 0..(n - 1) : At(s, j) < At(s, i)})
        + Cardinality({j \in 0..(i - 1) : At(s, j) = At(s, i)})

\* C7: every computed rank[i] is |{j < i : e[i] >= e[j]}| + |{k > i : e[i] > e[k]}|,
\* which is the position of index i in a stable sort of the input; and of two
\* equal elements the one at the lower index gets the lower rank.
C7_Stable ==
    /\ \A i \in 0..(Len(rank) - 1) :
           /\ At(rank, i) =
                  Cardinality({j \in 0..(i - 1) : At(list, i) >= At(list, j)})
                      + Cardinality({k \in (i + 1)..(N - 1) : At(list, i) > At(list, k)})
           /\ At(rank, i) = StablePosition(list, N, i)
    /\ \A i, k \in 0..(Len(rank) - 1) :
           (i < k /\ At(list, i) = At(list, k)) => At(rank, i) < At(rank, k)

C7_Witness ==
    /\ RanksDone
    /\ N >= 3
    /\ At(list, 0) = At(list, 1)
    /\ At(list, 2) < At(list, 0)
    /\ At(rank, 0) = 1
    /\ At(rank, 1) = 2

---------------------------------------------------------------------------
(* C8: how often a pair is compared *)

\* how many comparisons of cmps have the elements at i and k as operands
ComparisonsOf(i, k) ==
    CopiesIn(<<">=", i, k>>, cmps) + CopiesIn(<<">=", k, i>>, cmps)
        + CopiesIn(<<">", i, k>>, cmps) + CopiesIn(<<">", k, i>>, cmps)

\* C8 as stated: when sort<N> returns, every unordered pair {i, k} with i < k
\* has been compared exactly once, N(N-1)/2 comparisons in all.
C8_ComparedOnce ==
    pc = "done" =>
        /\ \A i, k \in 0..(N - 1) : i < k => ComparisonsOf(i, k) = 1
        /\ 2 * BagCardinality(cmps) = N * (N - 1)

\* C8 amended: once all ranks are computed every unordered pair {i, k} with
\* i < k has been compared exactly twice, once as list[i] > list[k] (i's upper
\* pass) and once as list[k] >= list[i] (k's lower pass), no element with
\* itself, N(N-1) comparisons in all; the pattern names no element value, so
\* it is the same for all data.
C8_ComparedTwice ==
    RanksDone =>
        /\ \A i, k \in 0..(N - 1) : i < k =>
               /\ CopiesIn(<<">", i, k>>, cmps) = 1
               /\ CopiesIn(<<">=", k, i>>, cmps) = 1
               /\ ComparisonsOf(i, k) = 2
        /\ \A i \in 0..(N - 1) : ComparisonsOf(i, i) = 0
        /\ BagCardinality(cmps) = N * (N - 1)

C8_Witness ==
    /\ pc = "done"
    /\ N >= 3
    /\ BagCardinality(cmps) = N * (N - 1)
    /\ ComparisonsOf(0, N - 1) = 2

---------------------------------------------------------------------------
(* C9: the asymmetry of the two passes *)

\* rank[] with >= in both passes
rank_ge_both(n, lst) ==
    [k \in 1..n |-> sort_rank_l(k - 1, lst, make_index_sequence(k - 1))
                        + sort_rank_u_ge(k - 1, lst, make_index_sequence(n - k))]

\* rank[] with > in both passes
rank_gt_both(n, lst) ==
    [k \in 1..n |-> sort_rank_l_gt(k - 1, lst, make_index_sequence(k - 1))
                        + sort_rank_u(k - 1, lst, make_index_sequence(n - k))]

\* the output the scatter produces from the rank array rk
scattered(n, rk, lst) ==
    scatter([k \in 1..n |-> ValueInit], rk, lst, make_index_sequence(n), 1)

\* the only values that occur twice are value-initialised ones
OnlyValueInitRepeats(s) ==
    \A a, b \in DOMAIN s : (a # b /\ s[a] = s[b]) => s[a] = ValueInit

\* the asymmetric rule as coded gives a permutation and a rearrangement
C9_AsCoded ==
    /\ RanksDone => IsPermutation(rank, N)
    /\ pc = "done" => BagOf(response) = BagOf(FirstN)

\* C9 as stated: when sort<N> has returned, with one operator in both passes every input with two equal
\* elements has a rank collision and its output is not a rearrangement of the
\* input; with the rule as coded there is no such input.
C9_SameOperatorBreaks ==
    /\ (pc = "done" /\ HasDuplicates(FirstN)) =>
           /\ Collides(rank_ge_both(N, list))
           /\ Collides(rank_gt_both(N, list))
           /\ BagOf(scattered(N, rank_ge_both(N, list), list)) # BagOf(FirstN)
           /\ BagOf(scattered(N, rank_gt_both(N, list), list)) # BagOf(FirstN)
    /\ C9_AsCoded

\* C9 amended: when sort<N> has returned, with one operator in both passes every input with two equal
\* elements has a rank collision; its output is not a rearrangement of the
\* input unless every repeated value is the value-initialised one (0), in
\* which case the unwritten slots happen to restore it; with the rule as coded
\* there is no collision and the output is a rearrangement.
C9_SameOperatorCollides ==
    /\ (pc = "done" /\ HasDuplicates(FirstN)) =>
           /\ Collides(rank_ge_both(N, list))
           /\ Collides(rank_gt_both(N, list))
           /\ (BagOf(scattered(N, rank_ge_both(N, list), list)) = BagOf(FirstN))
                  <=> OnlyValueInitRepeats(FirstN)
           /\ (BagOf(scattered(N, rank_gt_both(N, list), list)) = BagOf(FirstN))
                  <=> OnlyValueInitRepeats(FirstN)
    /\ C9_AsCoded

C9_Witness ==
    /\ pc = "done"
    /\ N >= 3
    /\ HasDuplicates(FirstN)
    /\ ~OnlyValueInitRepeats(FirstN)
    /\ ~NonDecreasing(FirstN)
    /\ Collides(rank_ge_both(N, list))
    /\ IsPermutation(rank, N)

---------------------------------------------------------------------------
(* C10: ranks stay in bounds whatever the comparisons return *)

\* the last source index written to slot d, when there is one
LastWriter(d) ==
    CHOOSE i \in 0..(Len(writes) - 1) :
        /\ At(writes, i) = d
        /\ \A j \in (i + 1)..(Len(writes) - 1) : At(writes, j) # d

\* C10: whatever the bool operator>= and operator> return, consistent with an
\* order or not, the lower pass adds at most i and the upper pass at most
\* N-i-1, so every rank[i] is in 0..N-1 and every scatter write, done or about
\* to be done, is inside the N elements of the output; ranks may collide, and
\* then a slot no rank names keeps its value-initialised content and a slot
\* hit holds the element written to it last.
C10_RankInBounds ==
    /\ \A i \in 0..(Len(rank) - 1) :
           /\ At(rank, i) \in 0..(N - 1)
           /\ At(rank, i) <= i + (N - i - 1)
    /\ (pc = "scatter" /\ I < N) => InBounds(At(rank, I), Len(response))
    /\ \A w \in 0..(Len(writes) - 1) :
           /\ At(writes, w) \in 0..(Len(response) - 1)
           /\ At(writes, w) = At(rank, w)
    /\ RanksDone => Len(response) = N
    /\ RanksDone =>
           \A d \in 0..(N - 1) :
               At(response, d) =
                   IF d \in Range(writes) THEN At(list, LastWriter(d)) ELSE ValueInit
    /\ pc = "done" => Len(writes) = N

C10_Witness ==
    /\ pc = "done"
    /\ N >= 3
    /\ Collides(rank)
    /\ \A a \in 0..(N - 1) : At(list, a) # ValueInit
    /\ \E d \in 0..(N - 1) : d \notin Range(rank) /\ At(response, d) = ValueInit
    /\ \E d \in 0..(N - 1) : At(rank, d) = N - 1

====
